---- MODULE Spec2Model ----
(***************************************************************************)
(* LoadingManager of src/script.js (lines 806-969): the resource-gated     *)
(* loading sequencer.  The page it is constructed on is an input; the      *)
(* host's event loop is modelled by one action per callback the class      *)
(* registers (image / stylesheet / fonts listeners and the three           *)
(* setTimeout callbacks) plus the passage of time.  Callbacks run to       *)
(* completion, so each one is a single action.                             *)
(*                                                                         *)
(* Time is counted in milliseconds.  A timer callback runs at its due      *)
(* time: time does not advance past a timer that is due.  Resource events  *)
(* are sampled on a grid of Step milliseconds.                             *)
(*                                                                         *)
(* Not modelled: the inline styles of the hero elements that               *)
(* triggerEntranceAnimations (lines 959-968) sets; no other code reads     *)
(* them.  The page always has the progress bar and the status text         *)
(* element, so that updateProgress writes both.                            *)
(***************************************************************************)
EXTENDS Integers, Sequences, FiniteSets, TLC

\* ---- bounds of the model ------------------------------------------------
MaxImages == 2
MaxSheets == 1
MaxLateTicks == 2
MaxCalls == 3          \* calls of a throttled / debounced function in a run
MaxUtilTicks == 6      \* half-periods of time in a run of throttle / debounce
MaxElements == 2       \* elements the intersection observer watches
MaxNotify == 3         \* intersection notifications per element
MaxAosDelay == 2       \* longest data-aos-delay, in frames
FrameMs == 16          \* period of the rendering opportunities, in ms
MaxScrolls == 4        \* scroll events in a run

\* ---- constants of the program -------------------------------------------
FallbackTimeout == 5000
GraceDelay == 500
HideDelay == 500
ThrottleLimit == 16    \* limit of the throttled handleScroll
DebounceWait == 250    \* wait of the debounced handleResize
HeaderThreshold == 50  \* scrollY above which the header is 'scrolled'
MobileWidth == 768     \* widest window in which a left swipe opens the menu
DesktopWidth == 1024   \* a resize to a wider window closes the menu

\* resource events are sampled every Step ms; the horizon leaves room for
\* settlements that arrive after every timer of a run has fired
Step == GraceDelay \div 2
Horizon == FallbackTimeout + HideDelay + MaxLateTicks * Step

VARIABLES
  pc,              \* "new" before the constructor ran, "started" after it
  now,             \* ms since the constructor ran
  page,            \* the document the manager is constructed on (input)
  domChanged,      \* a resource was added to the document after discovery
  resources,       \* this.resources
  listener,        \* per resource: state of the listeners attached to it
  loadedCount,     \* this.loadedCount
  totalCount,      \* this.totalCount
  isComplete,      \* this.isComplete (undefined, i.e. falsy, until set)
  timers,          \* pending setTimeout callbacks, in registration order
  screenOpacity,   \* loadingScreen.style.opacity
  screenDisplay,   \* loadingScreen.style.display
  bodyLoaded,      \* document.body has class 'loaded'
  pageLoadedEvents,\* number of 'pageLoaded' events dispatched
  eventLog,        \* what a listener of 'pageLoaded' sees at each dispatch
  progressLog,     \* arguments of the calls of updateProgress, in order
  textLog,         \* message index and text updateProgress chose, per call
  graceLog,        \* times at which the grace-delay timer was scheduled
  completeLog,     \* times (and callers) at which isComplete was assigned
  hookLog          \* times at which onLoadingComplete was invoked

\* ---- state of the other components of the script -------------------------
VARIABLES
  \* UIController.throttle (lines 773-784), as bound to handleScroll
  inThrottle,      \* the closure variable inThrottle (undefined is falsy)
  thrTimers,       \* due times of the pending reset timeouts
  thrCalls,        \* time of each call of the throttled function
  thrRuns,         \* invocations of func: [call, time]
  \* UIController.debounce (lines 786-799), as bound to handleResize
  timeout,         \* the closure variable timeout: 0 for undefined / null
  debTimers,       \* pending setTimeout(later, wait): [id, due]
  debCalls,        \* time of each call of the debounced function
  debRuns,         \* invocations of func: [call, time]
  \* the mobile menu of UIController (lines 345-378, 380-391, 418-443)
  mobileMenuOpen,  \* this.state.mobileMenuOpen
  toggleActive,    \* #mobileMenuToggle has class 'active'
  ariaExpanded,    \* aria-expanded of #mobileMenuToggle ("absent" if unset)
  navActive,       \* #mobileNav has class 'active'
  bodyOverflow,    \* document.body.style.overflow
  innerWidth,      \* window.innerWidth
  resizePending,   \* the debounced handleResize is waiting to run
  quickActionsOpen,\* this.state.quickActionsOpen
  currentSection,  \* this.state.currentSection
  userIsTabbing,   \* document.body has class 'user-is-tabbing'
  \* the booking modal (lines 1049-1360)
  modal,           \* "none" before createBookingModal, "open" after
  fields,          \* value class of each form control
  consentChecked,  \* #pdpa-consent is checked
  submitDisabled,  \* #submit-booking is disabled
  validatePending, \* setTimeout(validateForm, 100) has not run yet
  \* AnimationEngine.triggerAnimation (lines 113-131, 202-218)
  aosDelay,        \* per observed element: parseInt(data-aos-delay) || 0
  animated,        \* per element: it has class 'animated'
  animTimers,      \* pending timeouts of triggerAnimation: [el, due]
  notified,        \* per element: times of its intersection notifications
  scheduled,       \* per element: timeouts triggerAnimation has set
  played,          \* per element: calls of playAnimation
  \* AnimationEngine.setupScrollAnimations (lines 133-157)
  ticking,         \* the closure variable ticking
  rafQueue,        \* pending requestAnimationFrame(updateScrollAnimations)
  pageYOffset,     \* window.pageYOffset
  headerScrolled,  \* #header has class 'scrolled'
  scrollEvents,    \* number of scroll events dispatched
  scrollRuns       \* per run of updateScrollAnimations: events seen, scrollY

thrVars == <<inThrottle, thrTimers, thrCalls, thrRuns>>
debVars == <<timeout, debTimers, debCalls, debRuns>>
menuVars == <<mobileMenuOpen, toggleActive, ariaExpanded, navActive, bodyOverflow,
              innerWidth, resizePending, quickActionsOpen, currentSection,
              userIsTabbing>>
formVars == <<modal, fields, consentChecked, submitDisabled, validatePending>>
animVars == <<aosDelay, animated, animTimers, notified, scheduled, played>>
scrollVars == <<ticking, rafQueue, pageYOffset, headerScrolled, scrollEvents,
                scrollRuns>>
uiVars == <<thrVars, debVars, menuVars, formVars, animVars, scrollVars>>

\* the fields of the LoadingManager and the document it watches
loaderVars == <<pc, page, domChanged, resources, listener, loadedCount, totalCount,
                isComplete, timers, screenOpacity, screenDisplay, bodyLoaded,
                pageLoadedEvents, eventLog, progressLog, textLog, graceLog,
                completeLog, hookLog>>

vars == <<pc, now, page, domChanged, resources, listener, loadedCount, totalCount,
          isComplete, timers, screenOpacity, screenDisplay, bodyLoaded,
          pageLoadedEvents, eventLog, progressLog, textLog, graceLog,
          completeLog, hookLog, uiVars>>

\* ---- the manager's state as one value, for sequencing calls --------------
Cur ==
  [resources |-> resources, listener |-> listener,
   loadedCount |-> loadedCount, totalCount |-> totalCount,
   isComplete |-> isComplete, timers |-> timers,
   screenOpacity |-> screenOpacity, screenDisplay |-> screenDisplay,
   bodyLoaded |-> bodyLoaded, pageLoadedEvents |-> pageLoadedEvents,
   eventLog |-> eventLog,
   progressLog |-> progressLog, textLog |-> textLog, graceLog |-> graceLog,
   completeLog |-> completeLog, hookLog |-> hookLog]

\* the result of a handler becomes the next state (its value is computed once)
Commit(result) ==
  \E s \in {result} :
    /\ resources' = s.resources
    /\ listener' = s.listener
    /\ loadedCount' = s.loadedCount
    /\ totalCount' = s.totalCount
    /\ isComplete' = s.isComplete
    /\ timers' = s.timers
    /\ screenOpacity' = s.screenOpacity
    /\ screenDisplay' = s.screenDisplay
    /\ bodyLoaded' = s.bodyLoaded
    /\ pageLoadedEvents' = s.pageLoadedEvents
    /\ eventLog' = s.eventLog
    /\ progressLog' = s.progressLog
    /\ textLog' = s.textLog
    /\ graceLog' = s.graceLog
    /\ completeLog' = s.completeLog
    /\ hookLog' = s.hookLog
    /\ UNCHANGED uiVars

\* setTimeout(callback, delay) called at time t
setTimeout(s, kind, delay, t) ==
  [s EXCEPT !.timers = Append(@, [kind |-> kind, delay |-> delay, due |-> t + delay])]

\* ---- the pages the manager may be constructed on -------------------------
\* images: number of img[src]; sheets: for each link[rel=stylesheet] whether
\* link.sheet is set when startLoading looks at it; fonts: document.fonts
\* exists; loadingScreen: #loadingScreen exists
SheetLists == UNION {[1..n -> BOOLEAN] : n \in 0..MaxSheets}

Pages ==
  [images : 0..MaxImages, sheets : SheetLists, fonts : BOOLEAN,
   loadingScreen : BOOLEAN]

\* ---- onLoadingComplete (the Ready Hook) ----------------------------------
\* window.dispatchEvent(new CustomEvent('pageLoaded')): listeners run
\* synchronously and see the state as it is at the dispatch
dispatchPageLoaded(s) ==
  [s EXCEPT !.pageLoadedEvents = @ + 1,
            !.eventLog = Append(@, [bodyLoaded |-> s.bodyLoaded,
                                    isComplete |-> s.isComplete])]

onLoadingComplete_DispatchFirst(s, t) ==
  LET s1 == dispatchPageLoaded([s EXCEPT !.hookLog = Append(@, t)])
  IN [s1 EXCEPT !.bodyLoaded = TRUE]

onLoadingComplete(s, t) ==
  LET s1 == [s EXCEPT !.hookLog = Append(@, t), !.bodyLoaded = TRUE]
  IN dispatchPageLoaded(s1)

\* ---- completeLoading ------------------------------------------------------
completeLoading_NoGuard(s, t, via) ==
  LET s1 == [s EXCEPT !.isComplete = TRUE,
                      !.completeLog = Append(@, [time |-> t, via |-> via,
                                                 loaded |-> s.loadedCount])]
  IN IF page.loadingScreen
     THEN setTimeout([s1 EXCEPT !.screenOpacity = "0"], "hide", HideDelay, t)
     ELSE onLoadingComplete(s1, t)

completeLoading(s, t, via) ==
  IF s.isComplete THEN s
  ELSE LET s1 == [s EXCEPT !.isComplete = TRUE,
                           !.completeLog = Append(@, [time |-> t, via |-> via,
                                                 loaded |-> s.loadedCount])]
       IN IF page.loadingScreen
          THEN setTimeout([s1 EXCEPT !.screenOpacity = "0"], "hide", HideDelay, t)
          ELSE onLoadingComplete(s1, t)

\* ---- updateProgress -------------------------------------------------------
\* progress is the quotient loadedCount / totalCount * 100, kept exact as a
\* fraction num / den
messages ==
  <<"Loading experience...", "Preparing models...",
    "Initializing systems...", "Almost ready...">>

\* Math.floor((progress / 100) * (messages.length - 1)) as the code evaluates
\* it, in IEEE-754 doubles, for progress = (loadedCount / totalCount) * 100.
\* When loadedCount / totalCount is 1/3 the double progress is
\* 33.33333333333333 and (progress / 100) * 3 is 0.9999999999999998; when it
\* is 2/3 progress is 66.66666666666666 and the product 1.9999999999999996:
\* the floor is one less than the exact quotient.  For every other
\* loadedCount <= totalCount <= 1500 the double product has the floor of
\* the exact quotient.  With totalCount = 0 progress is Infinity, an index
\* past the last message like any other index out of range.
messageIndex(progress) ==
  IF progress.den = 0 THEN Len(messages)
  ELSE LET q == (progress.num * (Len(messages) - 1)) \div (100 * progress.den)
       IN IF \/ 3 * progress.num = 100 * progress.den
             \/ 3 * progress.num = 200 * progress.den
          THEN q - 1
          ELSE q

\* messages[messageIndex] || 'Loading...'
messageText(idx) ==
  IF idx \in 0..(Len(messages) - 1) THEN messages[idx + 1] ELSE "Loading..."

\* the page is taken to have the .loading-progress and .loading-text
\* elements; the width of the bar is the last entry of progressLog
updateProgress(s, progress) ==
  LET idx == messageIndex(progress)
  IN [s EXCEPT !.progressLog = Append(@, progress),
               !.textLog = Append(@, [index |-> idx, text |-> messageText(idx)])]

\* ---- onResourceLoaded -----------------------------------------------------
onResourceLoaded_NoGrace(s, t) ==
  LET s1 == [s EXCEPT !.loadedCount = @ + 1]
      progress == [num |-> s1.loadedCount * 100, den |-> s1.totalCount]
      s2 == updateProgress(s1, progress)
  IN IF s2.loadedCount >= s2.totalCount
     THEN completeLoading([s2 EXCEPT !.graceLog = Append(@, t)], t, "grace")
     ELSE s2

onResourceLoaded_StaleProgress(s, t) ==
  LET s1 == [s EXCEPT !.loadedCount = @ + 1]
      progress == [num |-> s.loadedCount * 100, den |-> s.totalCount]
      s2 == updateProgress(s1, progress)
  IN IF s2.loadedCount >= s2.totalCount
     THEN setTimeout([s2 EXCEPT !.graceLog = Append(@, t)], "grace", GraceDelay, t)
     ELSE s2

onResourceLoaded_Rescan(s, t) ==
  LET s1 == [s EXCEPT !.loadedCount = @ + 1,
                      !.totalCount = Len(s.resources) + (IF domChanged THEN 1 ELSE 0)]
      progress == [num |-> s1.loadedCount * 100, den |-> s1.totalCount]
      s2 == updateProgress(s1, progress)
  IN IF s2.loadedCount >= s2.totalCount
     THEN setTimeout([s2 EXCEPT !.graceLog = Append(@, t)], "grace", GraceDelay, t)
     ELSE s2

onResourceLoaded_IgnoreLate(s, t) ==
  IF s.isComplete THEN s
  ELSE
  LET s1 == [s EXCEPT !.loadedCount = @ + 1]
      progress == [num |-> s1.loadedCount * 100, den |-> s1.totalCount]
      s2 == updateProgress(s1, progress)
  IN IF s2.loadedCount >= s2.totalCount
     THEN setTimeout([s2 EXCEPT !.graceLog = Append(@, t)], "grace", GraceDelay, t)
     ELSE s2

onResourceLoaded(s, t) ==
  LET s1 == [s EXCEPT !.loadedCount = @ + 1]
      progress == [num |-> s1.loadedCount * 100, den |-> s1.totalCount]
      s2 == updateProgress(s1, progress)
  IN IF s2.loadedCount >= s2.totalCount
     THEN setTimeout([s2 EXCEPT !.graceLog = Append(@, t)], "grace", GraceDelay, t)
     ELSE s2

\* ---- collectResources -----------------------------------------------------
ImageResources(p) == [i \in 1..p.images |-> [type |-> "image", sheet |-> FALSE]]
SheetResources(p) ==
  [i \in 1..Len(p.sheets) |-> [type |-> "stylesheet", sheet |-> p.sheets[i]]]
FontResources(p) ==
  IF p.fonts THEN <<[type |-> "fonts", sheet |-> FALSE]>> ELSE <<>>

collectResources_FontsNotPushed(s, p) ==
  LET rs == ImageResources(p) \o SheetResources(p)
      ls == [i \in 1..Len(rs) |-> "none"]
  IN [s EXCEPT !.resources = rs \o FontResources(p),
               !.listener = ls \o (IF p.fonts THEN <<"armed">> ELSE <<>>),
               !.totalCount = Len(rs)]

collectResources_FontsSync(s, p) ==
  LET rs == ImageResources(p) \o SheetResources(p) \o FontResources(p)
      s1 == [s EXCEPT !.resources = rs,
                      !.listener = [i \in 1..Len(rs) |->
                                      IF rs[i].type = "fonts" THEN "ready" ELSE "none"]]
      s2 == IF p.fonts THEN onResourceLoaded(s1, now) ELSE s1
  IN [s2 EXCEPT !.totalCount = Len(rs)]

collectResources(s, p) ==
  LET rs == ImageResources(p) \o SheetResources(p) \o FontResources(p)
  IN [s EXCEPT !.resources = rs,
               \* the fonts.ready listener is attached here (line 847)
               !.listener = [i \in 1..Len(rs) |->
                               IF rs[i].type = "fonts" THEN "armed" ELSE "none"],
               !.totalCount = Len(rs)]

\* ---- loadResource, loadImage, loadStylesheet ------------------------------
loadImage(s, i, t) == [s EXCEPT !.listener[i] = "armed"]

loadStylesheet_AlwaysListen(s, i, t) ==
  IF s.resources[i].sheet
  THEN onResourceLoaded([s EXCEPT !.listener[i] = "armed"], t)
  ELSE [s EXCEPT !.listener[i] = "armed"]

loadStylesheet_NoSheetCheck(s, i, t) == [s EXCEPT !.listener[i] = "armed"]

loadStylesheet(s, i, t) ==
  IF s.resources[i].sheet
  THEN onResourceLoaded([s EXCEPT !.listener[i] = "sync"], t)
  ELSE [s EXCEPT !.listener[i] = "armed"]

loadResource(s, i, t) ==
  CASE s.resources[i].type = "image" -> loadImage(s, i, t)
    [] s.resources[i].type = "stylesheet" -> loadStylesheet(s, i, t)
    [] OTHER -> s

\* resources.forEach(resource => this.loadResource(resource)), from index i
RECURSIVE loadFrom(_, _, _)
loadFrom(s, i, t) ==
  IF i > Len(s.resources) THEN s
  ELSE loadFrom(loadResource(s, i, t), i + 1, t)

\* ---- startLoading ---------------------------------------------------------
startLoading_NoFallback(s, t) ==
  IF s.totalCount = 0
  THEN completeLoading(s, t, "start")
  ELSE loadFrom(s, 1, t)

startLoading_NoEmptyCase(s, t) ==
  setTimeout(loadFrom(s, 1, t), "fallback", FallbackTimeout, t)

startLoading(s, t) ==
  IF s.totalCount = 0
  THEN completeLoading(s, t, "start")
  ELSE setTimeout(loadFrom(s, 1, t), "fallback", FallbackTimeout, t)

\* ---- the other components before any event --------------------------------
FieldNames == {"model", "firstName", "lastName", "email", "phone",
               "preferredDate", "preferredTime", "message"}
Elements == 1..MaxElements

ThrottleIdle ==
  /\ inThrottle = FALSE
  /\ thrTimers = <<>>
  /\ thrCalls = <<>>
  /\ thrRuns = <<>>

DebounceIdle ==
  /\ timeout = 0
  /\ debTimers = {}
  /\ debCalls = <<>>
  /\ debRuns = <<>>

MenuIdle ==
  /\ mobileMenuOpen = FALSE
  /\ toggleActive = FALSE
  /\ ariaExpanded = "absent"
  /\ navActive = FALSE
  /\ bodyOverflow = ""
  /\ innerWidth = MobileWidth
  /\ resizePending = FALSE
  /\ quickActionsOpen = FALSE
  /\ currentSection = "home"
  /\ userIsTabbing = FALSE

FormIdle ==
  /\ modal = "none"
  /\ fields = [f \in FieldNames |-> "empty"]
  /\ consentChecked = FALSE
  /\ submitDisabled = TRUE
  /\ validatePending = FALSE

AnimIdle ==
  /\ aosDelay = [e \in Elements |-> 0]
  /\ animated = [e \in Elements |-> FALSE]
  /\ animTimers = <<>>
  /\ notified = [e \in Elements |-> <<>>]
  /\ scheduled = [e \in Elements |-> 0]
  /\ played = [e \in Elements |-> 0]

ScrollIdle ==
  /\ ticking = FALSE
  /\ rafQueue = 0
  /\ pageYOffset = 0
  /\ headerScrolled = FALSE
  /\ scrollEvents = 0
  /\ scrollRuns = <<>>

\* a document without images, stylesheets, fonts API and loading screen
BlankPage == [images |-> 0, sheets |-> <<>>, fonts |-> FALSE, loadingScreen |-> FALSE]

\* ---- Init: the fields as the constructor sets them (lines 812-814) --------
LoaderNew ==
  /\ pc = "new"
  /\ now = 0
  /\ domChanged = FALSE
  /\ resources = <<>>
  /\ listener = <<>>
  /\ loadedCount = 0
  /\ totalCount = 0
  /\ isComplete = FALSE
  /\ timers = <<>>
  /\ screenOpacity = "1"
  /\ screenDisplay = "block"
  /\ bodyLoaded = FALSE
  /\ pageLoadedEvents = 0
  /\ eventLog = <<>>
  /\ progressLog = <<>>
  /\ textLog = <<>>
  /\ graceLog = <<>>
  /\ completeLog = <<>>
  /\ hookLog = <<>>

Init ==
  /\ LoaderNew
  /\ page \in Pages
  /\ ThrottleIdle /\ DebounceIdle /\ MenuIdle /\ FormIdle /\ AnimIdle /\ ScrollIdle

\* ---- init(): collectResources then startLoading, in one task --------------
init ==
  /\ pc = "new"
  /\ pc' = "started"
  /\ Commit(startLoading(collectResources(Cur, page), now))
  /\ UNCHANGED <<now, page, domChanged>>

\* ---- resource events ------------------------------------------------------
Settle_StaysArmed(i, how) ==
  /\ pc = "started"
  /\ i \in DOMAIN listener
  /\ listener[i] = "armed"
  /\ Commit(onResourceLoaded(Cur, now))
  /\ UNCHANGED <<pc, now, page, domChanged>>

Settle_ErrorIgnored(i, how) ==
  /\ pc = "started"
  /\ i \in DOMAIN listener
  /\ listener[i] = "armed"
  /\ Commit(IF how = "error"
            THEN [Cur EXCEPT !.listener[i] = how]
            ELSE onResourceLoaded([Cur EXCEPT !.listener[i] = how], now))
  /\ UNCHANGED <<pc, now, page, domChanged>>

Settle(i, how) ==
  /\ pc = "started"
  /\ i \in DOMAIN listener
  /\ listener[i] = "armed"
  /\ Commit(onResourceLoaded([Cur EXCEPT !.listener[i] = how], now))
  /\ UNCHANGED <<pc, now, page, domChanged>>

\* img.onload / img.onerror (lines 890-891)
imageOnload == \E i \in DOMAIN resources : resources[i].type = "image" /\ Settle(i, "load")
imageOnerror == \E i \in DOMAIN resources : resources[i].type = "image" /\ Settle(i, "error")

\* link.onload / link.onerror (lines 900-901)
linkOnload == \E i \in DOMAIN resources : resources[i].type = "stylesheet" /\ Settle(i, "load")
linkOnerror == \E i \in DOMAIN resources : resources[i].type = "stylesheet" /\ Settle(i, "error")

\* document.fonts.ready resolves (lines 847-849)
fontsReady == \E i \in DOMAIN resources : resources[i].type = "fonts" /\ Settle(i, "ready")

\* ---- the document after discovery -----------------------------------------
\* an img or a stylesheet link is inserted into the document after the
\* manager was constructed; the manager registers no observer of the
\* document, so none of its fields changes
domInsert ==
  /\ pc = "started"
  /\ ~domChanged
  /\ domChanged' = TRUE
  /\ UNCHANGED <<pc, now, page, resources, listener, loadedCount, totalCount,
                 isComplete, timers, screenOpacity, screenDisplay, bodyLoaded,
                 pageLoadedEvents, eventLog, progressLog, textLog, graceLog,
                 completeLog, hookLog, uiVars>>

\* ---- timers ---------------------------------------------------------------
RemoveAt(q, i) == [j \in 1..(Len(q) - 1) |-> IF j < i THEN q[j] ELSE q[j + 1]]

\* timer i is due, and no timer registered before it with a delay not
\* longer than its own is still pending
MayRun(i) ==
  /\ i \in DOMAIN timers
  /\ timers[i].due <= now
  /\ \A j \in 1..(i - 1) : timers[j].delay > timers[i].delay

Fire(i, kind) ==
  /\ pc = "started"
  /\ MayRun(i)
  /\ timers[i].kind = kind

fallbackTimeout_Inverted ==
  \E i \in DOMAIN timers :
    /\ Fire(i, "fallback")
    /\ LET s == [Cur EXCEPT !.timers = RemoveAt(@, i)]
       IN Commit(IF s.isComplete THEN completeLoading(s, now, "fallback") ELSE s)
    /\ UNCHANGED <<pc, now, page, domChanged>>

\* the fallback timeout (lines 867-871)
fallbackTimeout ==
  \E i \in DOMAIN timers :
    /\ Fire(i, "fallback")
    /\ LET s == [Cur EXCEPT !.timers = RemoveAt(@, i)]
       IN Commit(IF ~s.isComplete THEN completeLoading(s, now, "fallback") ELSE s)
    /\ UNCHANGED <<pc, now, page, domChanged>>

\* the grace-delay timeout (line 912)
graceTimeout ==
  \E i \in DOMAIN timers :
    /\ Fire(i, "grace")
    /\ Commit(completeLoading([Cur EXCEPT !.timers = RemoveAt(@, i)], now, "grace"))
    /\ UNCHANGED <<pc, now, page, domChanged>>

\* the timeout that hides the loading screen (lines 939-942)
hideTimeout ==
  \E i \in DOMAIN timers :
    /\ Fire(i, "hide")
    /\ Commit(onLoadingComplete([Cur EXCEPT !.timers = RemoveAt(@, i),
                                            !.screenDisplay = "none"], now))
    /\ UNCHANGED <<pc, now, page, domChanged>>

\* ---- time -----------------------------------------------------------------
TimerDue == \E i \in DOMAIN timers : timers[i].due <= now

Tick ==
  /\ pc = "started"
  /\ ~TimerDue
  /\ now + Step <= Horizon
  /\ now' = now + Step
  /\ UNCHANGED <<pc, page, domChanged, resources, listener, loadedCount, totalCount,
                 isComplete, timers, screenOpacity, screenDisplay, bodyLoaded,
                 pageLoadedEvents, eventLog, progressLog, textLog, graceLog,
                 completeLog, hookLog, uiVars>>

Next ==
  \/ init
  \/ imageOnload
  \/ imageOnerror
  \/ linkOnload
  \/ linkOnerror
  \/ fontsReady
  \/ fallbackTimeout
  \/ graceTimeout
  \/ hideTimeout
  \/ Tick

Spec == Init /\ [][Next]_vars

\* the same manager on a document that other code may change after discovery
NextDom ==
  \/ Next
  \/ domInsert

DomSpec == Init /\ [][NextDom]_vars

\* the event loop runs every timer that is due and lets time pass; no
\* resource is obliged to settle
FairSpec ==
  /\ Spec
  /\ WF_vars(fallbackTimeout)
  /\ WF_vars(graceTimeout)
  /\ WF_vars(hideTimeout)
  /\ WF_vars(Tick)

TypeOK ==
  /\ pc \in {"new", "started"}
  /\ now \in 0..Horizon
  /\ page \in Pages
  /\ loadedCount \in Nat
  /\ totalCount \in Nat
  /\ isComplete \in BOOLEAN
  /\ Len(listener) = Len(resources)

\* ==========================================================================
\* Properties
\* ==========================================================================
Started == pc = "started"
HookDelay == IF page.loadingScreen THEN HideDelay ELSE 0
Pending(kind) == \E i \in DOMAIN timers : timers[i].kind = kind
\* the grace-delay timer was scheduled: every resource had settled
AllSettled == graceLog # <<>>
\* the transition was forced by the fallback timer with resources outstanding
FallbackShort ==
  /\ completeLog # <<>>
  /\ completeLog[1].via = "fallback"
  /\ completeLog[1].loaded < totalCount
\* a settlement arrived after the ready transition
LateSettlement == completeLog # <<>> /\ loadedCount > completeLog[1].loaded

\* C1: for every resource set and every interleaving of settlements and
\* timers onLoadingComplete is invoked at most once, and it has been
\* invoked once when no timer is pending or every timer of the run is past.
C1_ReadyHookExactlyOnce ==
  /\ Len(hookLog) <= 1
  /\ (Started /\ (timers = <<>> \/ now > FallbackTimeout + HideDelay))
       => Len(hookLog) = 1

C1_Witness ==
  /\ Len(hookLog) = 1
  /\ timers = <<>>
  /\ AllSettled
  /\ now >= FallbackTimeout

\* C2: once startLoading has been called the sequencer eventually has
\* isComplete true and onLoadingComplete invoked, when armed timers fire.
C2_EventuallyReady == Started ~> (isComplete /\ Len(hookLog) = 1)

C2_Witness ==
  /\ isComplete
  /\ Len(hookLog) = 1
  /\ totalCount > 0
  /\ loadedCount = 0

\* C3 as stated: with fewer than n resources settled when the fallback
\* timeout elapses, onLoadingComplete runs exactly at the fallback timeout.
C3_Original == FallbackShort => hookLog = <<FallbackTimeout>>

\* C3 amended: with fewer than n resources settled when the fallback timeout
\* elapses, isComplete is set exactly at the fallback timeout;
\* onLoadingComplete runs then when the page has no loading screen and
\* HideDelay later when it has one; a later settlement never makes it run a
\* second time.
C3_FallbackFiresOnce ==
  FallbackShort =>
    /\ isComplete
    /\ completeLog[1].time = FallbackTimeout
    /\ Len(completeLog) = 1
    /\ hookLog \in {<<>>, <<FallbackTimeout + HookDelay>>}
    /\ (hookLog = <<>>) => (page.loadingScreen /\ Pending("hide")
                              /\ now <= FallbackTimeout + HideDelay)

C3_Witness ==
  /\ FallbackShort
  /\ LateSettlement
  /\ loadedCount = totalCount
  /\ hookLog = <<FallbackTimeout + HookDelay>>
  /\ ~Pending("grace")

\* C4 as stated: when all n resources settle before the fallback timeout,
\* onLoadingComplete runs at settlement time + grace delay, not later, and
\* the transition is not taken by the fallback timer.
C4_Original ==
  (AllSettled /\ graceLog[1] < FallbackTimeout) =>
    /\ (hookLog # <<>> => hookLog[1] = graceLog[1] + GraceDelay)
    /\ (now > graceLog[1] + GraceDelay => hookLog # <<>>)
    /\ (completeLog # <<>> => completeLog[1].via # "fallback")

\* C4 amended: when all n >= 1 resources settle at a time s with
\* s + grace delay before the fallback timeout, isComplete is set at
\* s + grace delay by the grace-delay timer and not by the fallback timer;
\* onLoadingComplete runs then when the page has no loading screen and
\* HideDelay later when it has one.
C4_GracePath ==
  (AllSettled /\ graceLog[1] + GraceDelay < FallbackTimeout) =>
    /\ (completeLog # <<>> =>
          /\ completeLog[1].time = graceLog[1] + GraceDelay
          /\ completeLog[1].via = "grace")
    /\ (now > graceLog[1] + GraceDelay => isComplete)
    /\ (hookLog # <<>> => hookLog = <<graceLog[1] + GraceDelay + HookDelay>>)
    /\ (now > graceLog[1] + GraceDelay + HookDelay => hookLog # <<>>)

C4_Witness ==
  /\ AllSettled
  /\ graceLog[1] + GraceDelay < FallbackTimeout
  /\ hookLog = <<graceLog[1] + GraceDelay + HookDelay>>
  /\ \E i \in DOMAIN listener : listener[i] = "error"
  /\ \E i \in DOMAIN listener : listener[i] = "load"
  /\ now > FallbackTimeout

\* C5 as stated: with no resource discovered onLoadingComplete runs during
\* startLoading, without waiting for a timer.
C5_Original == (Started /\ totalCount = 0) => hookLog = <<0>>

\* C5 amended: with no resource discovered isComplete is set during
\* startLoading and no fallback timer is armed; onLoadingComplete runs
\* during startLoading when the page has no loading screen, and from the
\* hide timer, HideDelay after startLoading, when it has one.
C5_EmptyImmediate ==
  (Started /\ totalCount = 0) =>
    /\ isComplete
    /\ completeLog = <<[time |-> 0, via |-> "start", loaded |-> 0]>>
    /\ ~Pending("fallback")
    /\ ~page.loadingScreen => (hookLog = <<0>> /\ timers = <<>>)
    /\ page.loadingScreen =>
         /\ hookLog \in {<<>>, <<HideDelay>>}
         /\ (hookLog = <<>>) => (Pending("hide") /\ now <= HideDelay)

C5_Witness ==
  /\ Started
  /\ totalCount = 0
  /\ page.loadingScreen
  /\ hookLog = <<HideDelay>>

\* C6: in every reachable state 0 <= loadedCount <= totalCount, also after
\* the ready transition and after late settlements.
C6_CountWithinTotal == 0 <= loadedCount /\ loadedCount <= totalCount

C6_Witness ==
  /\ LateSettlement
  /\ loadedCount = totalCount
  /\ totalCount >= 2
  /\ Len(hookLog) = 1

\* C7: the percentages passed to updateProgress are non-decreasing from call
\* to call and none exceeds 100.
C7_ProgressMonotone ==
  /\ \A k \in DOMAIN progressLog :
       /\ progressLog[k].den > 0
       /\ progressLog[k].num <= 100 * progressLog[k].den
  /\ \A k \in 1..(Len(progressLog) - 1) :
       progressLog[k].num * progressLog[k + 1].den
         <= progressLog[k + 1].num * progressLog[k].den

C7_Witness ==
  /\ Len(progressLog) >= 3
  /\ progressLog[Len(progressLog)].num = 100 * progressLog[Len(progressLog)].den

\* C8: isComplete is assigned true exactly once in a run and no later
\* settlement or timer resets it: it never goes from true to false, it is
\* assigned at most once, and it is true once the fallback timeout is past.
C8_CompleteOnce ==
  /\ [](Len(completeLog) <= 1 /\ (isComplete <=> Len(completeLog) = 1))
  /\ [][isComplete => isComplete']_vars
  /\ []((Started /\ now > FallbackTimeout) => isComplete)

C8_Witness ==
  /\ isComplete
  /\ LateSettlement
  /\ AllSettled
  /\ timers = <<>>
  /\ completeLog[1].via = "fallback"

\* C9: a resource that fails to load counts like one that loads: the error
\* callback advances loadedCount by one and reports progress, and when it is
\* the last outstanding resource it schedules the ready transition after the
\* grace delay, after which onLoadingComplete has run just as on the success
\* path.
C9_ErrorCounts ==
  /\ [][\A i \in DOMAIN listener :
          (listener[i] = "armed" /\ listener'[i] = "error") =>
            /\ loadedCount' = loadedCount + 1
            /\ Len(progressLog') = Len(progressLog) + 1
            /\ (loadedCount' >= totalCount =>
                  /\ Len(timers') = Len(timers) + 1
                  /\ timers'[Len(timers')] =
                       [kind |-> "grace", delay |-> GraceDelay,
                        due |-> now + GraceDelay])]_vars
  /\ []((AllSettled /\ now > graceLog[1] + GraceDelay + HookDelay)
          => Len(hookLog) = 1)

C9_Witness ==
  /\ totalCount = 1
  /\ listener = <<"error">>
  /\ loadedCount = 1
  /\ completeLog # <<>> /\ completeLog[1].via = "grace"
  /\ hookLog = <<graceLog[1] + GraceDelay + HookDelay>>

\* C10: with at least one resource, isComplete is true no later than the
\* fallback timeout after startLoading, however many resources never settle.
C10_BoundedWait ==
  (Started /\ totalCount > 0) =>
    /\ (now > FallbackTimeout => ~Pending("fallback"))
    /\ (now >= FallbackTimeout /\ ~Pending("fallback")) =>
         (isComplete /\ completeLog[1].time <= FallbackTimeout)

C10_Witness ==
  /\ isComplete
  /\ completeLog[1].via = "fallback"
  /\ completeLog[1].time = FallbackTimeout
  /\ totalCount >= 2
  /\ loadedCount < totalCount
  /\ now > FallbackTimeout

\* number of pending timers of a kind
NumKind(q, kind) == Cardinality({i \in DOMAIN q : q[i].kind = kind})
\* this step runs the callback of a timer of the kind
Fires(kind) == NumKind(timers', kind) < NumKind(timers, kind)

\* C11: completeLoading called with isComplete already true changes nothing:
\* a grace-delay or fallback timer that fires after the ready transition
\* only leaves the timer queue; loadedCount, totalCount, isComplete, the
\* loading screen and the page are unchanged, onLoadingComplete is not
\* invoked and no timer is scheduled.  No timer is cancelled: a timer leaves
\* the queue only by firing when it is due.
C11_LoserHasNoEffect ==
  /\ [][(isComplete /\ (Fires("grace") \/ Fires("fallback"))) =>
          /\ UNCHANGED <<loadedCount, totalCount, isComplete, hookLog,
                         completeLog, screenOpacity, screenDisplay,
                         bodyLoaded, pageLoadedEvents, progressLog>>
          /\ Len(timers') = Len(timers) - 1]_vars
  /\ [][\A kind \in {"grace", "fallback", "hide"} :
          Fires(kind) => \E i \in DOMAIN timers :
                           timers[i].kind = kind /\ timers[i].due <= now]_vars

C11_Witness ==
  /\ completeLog # <<>>
  /\ completeLog[1].via = "fallback"
  /\ graceLog # <<>>
  /\ graceLog[1] + GraceDelay <= now
  /\ timers = <<>>
  /\ Len(hookLog) = 1
  /\ pageLoadedEvents = 1

\* C12: onLoadingComplete runs only after isComplete was set: whenever it
\* has run (the body has class 'loaded', a 'pageLoaded' event was
\* dispatched) isComplete is true and was set no later than the hook ran,
\* and every 'pageLoaded' event is dispatched with the body already marked
\* loaded.
C12_HookAfterComplete ==
  /\ (hookLog # <<>> \/ bodyLoaded \/ pageLoadedEvents > 0) =>
       /\ isComplete
       /\ completeLog # <<>>
       /\ hookLog # <<>>
       /\ completeLog[1].time <= hookLog[1]
  /\ Len(eventLog) = pageLoadedEvents
  /\ pageLoadedEvents > 0 => bodyLoaded
  /\ \A k \in DOMAIN eventLog : eventLog[k].bodyLoaded /\ eventLog[k].isComplete

C12_Witness ==
  /\ pageLoadedEvents = 1
  /\ eventLog = <<[bodyLoaded |-> TRUE, isComplete |-> TRUE]>>
  /\ page.loadingScreen
  /\ screenDisplay = "none"
  /\ completeLog[1].time + HideDelay = hookLog[1]

\* equality of two fractions num / den with positive denominators
SameFraction(a, b) == a.num * b.den = b.num * a.den
\* min(100, l / n * 100) as a fraction
MinPercent(l, n) ==
  IF l * 100 <= 100 * n THEN [num |-> l * 100, den |-> n]
                        ELSE [num |-> 100, den |-> 1]

\* C13: every percentage passed to updateProgress is
\* min(100, loadedCount / totalCount * 100) for loadedCount right after the
\* increment: there is one call per settlement and the k-th call of a run
\* carries k / totalCount * 100, in whatever order the resources settle.
C13_ProgressValue ==
  /\ Len(progressLog) = loadedCount
  /\ \A k \in DOMAIN progressLog :
       /\ progressLog[k].den = totalCount
       /\ progressLog[k].den > 0
       /\ progressLog[k].num = k * 100
       /\ SameFraction(progressLog[k], MinPercent(k, totalCount))

C13_Witness ==
  /\ totalCount >= 3
  /\ Len(progressLog) = totalCount
  /\ progressLog[2] = [num |-> 200, den |-> totalCount]
  /\ isComplete

\* listener states of a resource that has been counted
Counted == {"sync", "load", "error", "ready"}
NumCounted == Cardinality({i \in DOMAIN listener : listener[i] \in Counted})

\* C14: each discovered resource contributes at most one settlement:
\* loadedCount is the number of resources that have settled, a resource that
\* has settled (an image by load or by error, a stylesheet counted at attach
\* time, the fonts signal) never settles again, and a stylesheet counted at
\* attach time has no listener.
C14_OneSettlementEach ==
  /\ [](loadedCount = NumCounted)
  /\ [](\A i \in DOMAIN resources :
          /\ (resources[i].type = "stylesheet" /\ resources[i].sheet /\ Started)
               => listener[i] = "sync"
          /\ listener[i] = "sync" => resources[i].type = "stylesheet"
          /\ listener[i] = "ready" => resources[i].type = "fonts")
  /\ [][\A i \in DOMAIN listener :
          listener[i] \in Counted => listener'[i] = listener[i]]_vars
  /\ [][loadedCount' <= loadedCount + 1 \/ ~Started]_vars

C14_Witness ==
  /\ \E i \in DOMAIN listener : listener[i] = "sync"
  /\ \E i \in DOMAIN listener : listener[i] = "error"
  /\ \E i \in DOMAIN listener : listener[i] = "ready"
  /\ loadedCount = totalCount
  /\ timers = <<>>

\* C15: the settlement that makes loadedCount >= totalCount does not take
\* the ready transition itself: in that step isComplete is unchanged, 100%
\* is passed to updateProgress and completeLoading is scheduled GraceDelay
\* later; so when isComplete is set by the grace-delay timer, updateProgress
\* has received 100 and the grace delay has passed since.
C15_GraceAfterFullProgress ==
  /\ [][(loadedCount' > loadedCount /\ loadedCount' >= totalCount') =>
          /\ isComplete' = isComplete
          /\ hookLog' = hookLog
          /\ progressLog' # <<>>
          /\ SameFraction(progressLog'[Len(progressLog')], [num |-> 100, den |-> 1])
          /\ timers' # <<>>
          /\ timers'[Len(timers')].kind \in {"grace", "fallback"}
          /\ \E i \in DOMAIN timers' :
               timers'[i] = [kind |-> "grace", delay |-> GraceDelay,
                             due |-> now + GraceDelay]]_vars
  /\ []((completeLog # <<>> /\ completeLog[1].via = "grace") =>
          /\ graceLog # <<>>
          /\ completeLog[1].time = graceLog[1] + GraceDelay
          /\ \E k \in DOMAIN progressLog :
               SameFraction(progressLog[k], [num |-> 100, den |-> 1]))

C15_Witness ==
  /\ completeLog # <<>>
  /\ completeLog[1].via = "grace"
  /\ completeLog[1].time = graceLog[1] + GraceDelay
  /\ totalCount >= 2
  /\ progressLog[totalCount].num = 100 * totalCount
  /\ Pending("fallback")

\* number of stylesheets of the page that are parsed when startLoading runs
NumParsedSheets(p) == Cardinality({i \in DOMAIN p.sheets : p.sheets[i]})

\* C16: a stylesheet that is already parsed at attach time is settled inside
\* startLoading: when startLoading returns, loadedCount is the number of
\* such stylesheets and updateProgress has been called once for each.  On a
\* page of two images and one parsed stylesheet (and no fonts signal)
\* loadedCount is 1 after startLoading, the progress calls carry 1/3, 2/3
\* and 3/3, and onLoadingComplete runs once, no later than the grace delay
\* (and the hide delay of the loading screen) after the third settlement.
C16_ParsedSheetSync ==
  /\ [][(pc = "new" /\ pc' = "started") =>
          /\ loadedCount' = NumParsedSheets(page)
          /\ Len(progressLog') = NumParsedSheets(page)
          /\ \A i \in DOMAIN resources' :
               (resources'[i].type = "stylesheet" /\ resources'[i].sheet)
                 <=> listener'[i] = "sync"]_vars
  /\ []((Started /\ page.images = 2 /\ page.sheets = <<TRUE>> /\ ~page.fonts) =>
          /\ totalCount = 3
          /\ loadedCount \in 1..3
          /\ \A k \in DOMAIN progressLog :
               progressLog[k] = [num |-> 100 * k, den |-> 3]
          /\ Len(hookLog) <= 1
          /\ (loadedCount = 3 /\ now > graceLog[1] + GraceDelay + HookDelay)
               => Len(hookLog) = 1)

C16_Witness ==
  /\ page.images = 2
  /\ page.sheets = <<TRUE>>
  /\ ~page.fonts
  /\ loadedCount = 3
  /\ completeLog # <<>> /\ completeLog[1].via = "grace"
  /\ Len(hookLog) = 1

\* the number of resources a discovery pass finds on a page
Discovered(p) == p.images + Len(p.sheets) + (IF p.fonts THEN 1 ELSE 0)

\* C17: totalCount is fixed once discovery has run: discovery runs once, in
\* the constructor before startLoading, and afterwards no settlement, timer
\* or change of the document alters totalCount or the resource list, which
\* stay those of the document at construction.
C17_TotalFixed ==
  /\ [](Started => (totalCount = Len(resources)
                      /\ totalCount = Discovered(page)
                      /\ Len(listener) = totalCount))
  /\ [](~Started => (totalCount = 0 /\ resources = <<>>))
  /\ [][Started => (totalCount' = totalCount /\ resources' = resources)]_vars
  /\ [][Started => Started']_vars

C17_Witness ==
  /\ domChanged
  /\ totalCount = Discovered(page)
  /\ totalCount >= 2
  /\ loadedCount = totalCount
  /\ isComplete
  /\ timers = <<>>

\* C18 as stated: the message updateProgress chooses at its k-th call is the
\* one at index floor(3 * loadedCount / totalCount); the index is within
\* 0..3, non-decreasing from call to call, and 3 ('Almost ready...') only
\* when loadedCount equals totalCount.
C18_MessageIndex ==
  /\ Len(textLog) = loadedCount
  /\ \A k \in DOMAIN textLog :
       /\ totalCount > 0
       /\ textLog[k].index = (3 * k) \div totalCount
       /\ textLog[k].index \in 0..3
       /\ textLog[k].text = messages[textLog[k].index + 1]
       /\ (textLog[k].text = "Almost ready...") => k = totalCount
  /\ \A k \in 1..(Len(textLog) - 1) : textLog[k].index <= textLog[k + 1].index

\* this step is a settlement callback of some resource
SettlementStep ==
  \E i \in DOMAIN listener : listener[i] = "armed" /\ listener'[i] \in Counted

\* C19: a settlement that arrives after the ready transition still
\* increments loadedCount and is still passed to updateProgress, while
\* isComplete stays true and onLoadingComplete is not invoked by it; after
\* late settlements the transition and the hook have still happened at most
\* once.
C19_LateSettlementCounts ==
  /\ [][(isComplete /\ SettlementStep) =>
          /\ loadedCount' = loadedCount + 1
          /\ progressLog' = Append(progressLog,
                                   [num |-> 100 * loadedCount', den |-> totalCount])
          /\ Len(textLog') = Len(textLog) + 1
          /\ isComplete'
          /\ completeLog' = completeLog
          /\ hookLog' = hookLog
          /\ pageLoadedEvents' = pageLoadedEvents]_vars
  /\ [](LateSettlement => (isComplete /\ Len(completeLog) = 1 /\ Len(hookLog) <= 1))

C19_Witness ==
  /\ LateSettlement
  /\ completeLog[1].via = "fallback"
  /\ completeLog[1].loaded = 0
  /\ loadedCount = 1
  /\ totalCount >= 2
  /\ Len(progressLog) = 1
  /\ hookLog = <<FallbackTimeout + HookDelay>>

\* C20: no settlement callback runs before totalCount is assigned: the
\* fonts listener is attached during discovery, but every run of
\* onResourceLoaded happens after the constructor has finished, with
\* totalCount >= 1 and equal to its final value, so no progress value is
\* computed with a zero divisor.
C20_NoSettlementBeforeTotal ==
  /\ [](\A k \in DOMAIN progressLog :
          progressLog[k].den >= 1 /\ progressLog[k].den = totalCount)
  /\ [](loadedCount > 0 => (Started /\ totalCount >= 1))
  /\ [](~Started => (loadedCount = 0 /\ progressLog = <<>>))
  /\ [][loadedCount' > loadedCount => totalCount' >= 1]_vars
  /\ [][SettlementStep => (Started /\ totalCount >= 1)]_vars

C20_Witness ==
  /\ now = 0
  /\ \E i \in DOMAIN listener : listener[i] = "ready"
  /\ loadedCount = 1
  /\ totalCount >= 2
  /\ progressLog = <<[num |-> 100, den |-> totalCount]>>

\* C21: at most one grace-delay timer is scheduled per manager: the test
\* loadedCount >= totalCount of onResourceLoaded succeeds for one settlement
\* only, the one that brings loadedCount to totalCount (and for none as long
\* as a resource is outstanding).
C21_OneGraceTimer ==
  /\ Len(graceLog) <= 1
  /\ NumKind(timers, "grace") <= 1
  /\ (Len(graceLog) = 1) <=> (totalCount > 0 /\ loadedCount = totalCount)
  /\ Pending("grace") => graceLog # <<>>

C21_Witness ==
  /\ Len(graceLog) = 1
  /\ totalCount >= 3
  /\ loadedCount = totalCount
  /\ ~Pending("grace")
  /\ now >= graceLog[1] + GraceDelay

\* ==========================================================================
\* UIController.throttle (lines 773-784), bound to handleScroll with a
\* limit of 16 ms (line 280).  Calls arrive on a grid of half a limit.
\* ==========================================================================
ThrStep == ThrottleLimit \div 2

otherThanThrottle == <<loaderVars, debVars, menuVars, formVars, animVars, scrollVars>>

\* the function throttle returns is called
throttled_NoWindow ==
  /\ Len(thrCalls) < MaxCalls
  /\ thrCalls' = Append(thrCalls, now)
  /\ IF ~inThrottle
     THEN /\ thrRuns' = Append(thrRuns, [call |-> Len(thrCalls) + 1, time |-> now])
          /\ inThrottle' = inThrottle
          /\ thrTimers' = Append(thrTimers, now + ThrottleLimit)
     ELSE UNCHANGED <<inThrottle, thrTimers, thrRuns>>
  /\ UNCHANGED <<now, otherThanThrottle>>

throttled ==
  /\ Len(thrCalls) < MaxCalls
  /\ thrCalls' = Append(thrCalls, now)
  /\ IF ~inThrottle
     THEN /\ thrRuns' = Append(thrRuns, [call |-> Len(thrCalls) + 1, time |-> now])
          /\ inThrottle' = TRUE
          /\ thrTimers' = Append(thrTimers, now + ThrottleLimit)
     ELSE UNCHANGED <<inThrottle, thrTimers, thrRuns>>
  /\ UNCHANGED <<now, otherThanThrottle>>

\* the timeout of line 781: () => inThrottle = false
throttleTimeout ==
  \E i \in DOMAIN thrTimers :
    /\ thrTimers[i] <= now
    /\ inThrottle' = FALSE
    /\ thrTimers' = RemoveAt(thrTimers, i)
    /\ UNCHANGED <<thrCalls, thrRuns, now, otherThanThrottle>>

throttleTick ==
  /\ \A i \in DOMAIN thrTimers : thrTimers[i] > now
  /\ now + ThrStep <= MaxUtilTicks * ThrStep
  /\ now' = now + ThrStep
  /\ UNCHANGED <<loaderVars, uiVars>>

ThrottleInit ==
  /\ Init
  /\ page = BlankPage

ThrottleNext ==
  \/ throttled
  \/ throttleTimeout
  \/ throttleTick

ThrottleSpec == ThrottleInit /\ [][ThrottleNext]_vars

\* calls whose arguments func was invoked with
ThrDelivered == {thrRuns[i].call : i \in DOMAIN thrRuns}

ThrCallArrives == Len(thrCalls') = Len(thrCalls) + 1

\* C22: throttle is leading-edge and lossy.  A call that arrives while no
\* window is open runs func at once, with that call's arguments, and opens
\* a window that closes limit ms later; a call that arrives while the window
\* is open does not run func, and func never runs except in the call that
\* delivers it, so a dropped call is never replayed; two runs of func are at
\* least limit ms apart.
C22_ThrottleLeadingLossy ==
  /\ [][ThrCallArrives /\ ~inThrottle =>
          /\ thrRuns' = Append(thrRuns, [call |-> Len(thrCalls'), time |-> now])
          /\ inThrottle'
          /\ \E i \in DOMAIN thrTimers' : thrTimers'[i] = now + ThrottleLimit]_vars
  /\ [][ThrCallArrives /\ inThrottle => thrRuns' = thrRuns /\ inThrottle']_vars
  /\ [][thrRuns' # thrRuns => ThrCallArrives]_vars
  /\ [][ThrDelivered \subseteq ThrDelivered']_vars
  /\ [](\A i \in DOMAIN thrRuns :
          /\ thrRuns[i].call \in DOMAIN thrCalls
          /\ thrRuns[i].time = thrCalls[thrRuns[i].call])
  /\ [](\A i, j \in DOMAIN thrRuns :
          i < j => thrRuns[j].time - thrRuns[i].time >= ThrottleLimit)
  /\ [](inThrottle <=> Len(thrTimers) = 1)
  /\ [](Len(thrTimers) <= 1)

\* a burst of three calls whose last call was dropped, after its window closed
C22_Witness ==
  /\ Len(thrCalls) >= 3
  /\ Len(thrCalls) \notin ThrDelivered
  /\ Len(thrRuns) >= 2
  /\ ~inThrottle
  /\ thrTimers = <<>>
  /\ now >= thrCalls[Len(thrCalls)] + ThrottleLimit

\* ==========================================================================
\* UIController.debounce (lines 786-799), bound to handleResize with a wait
\* of 250 ms and immediate left undefined (line 281).  Calls arrive on a
\* grid of half a wait.
\* ==========================================================================
DebStep == DebounceWait \div 2

otherThanDebounce == <<loaderVars, thrVars, menuVars, formVars, animVars, scrollVars>>

\* the function debounce returns is called: callNow is falsy, the timer that
\* timeout names is cleared and a new one takes its place
debounced_NoClear ==
  /\ Len(debCalls) < MaxCalls
  /\ LET id == Len(debCalls) + 1
     IN /\ debCalls' = Append(debCalls, now)
        /\ debTimers' = debTimers \cup {[id |-> id, due |-> now + DebounceWait]}
        /\ timeout' = id
  /\ UNCHANGED <<debRuns, now, otherThanDebounce>>

debounced ==
  /\ Len(debCalls) < MaxCalls
  /\ LET id == Len(debCalls) + 1
     IN /\ debCalls' = Append(debCalls, now)
        /\ debTimers' = {x \in debTimers : x.id # timeout}
                          \cup {[id |-> id, due |-> now + DebounceWait]}
        /\ timeout' = id
  /\ UNCHANGED <<debRuns, now, otherThanDebounce>>

\* the timer of the call that set it runs later(): func gets that call's
\* arguments
later ==
  \E x \in debTimers :
    /\ x.due <= now
    /\ timeout' = 0
    /\ debRuns' = Append(debRuns, [call |-> x.id, time |-> now])
    /\ debTimers' = debTimers \ {x}
    /\ UNCHANGED <<debCalls, now, otherThanDebounce>>

\* time passes up to the horizon, and beyond it while a timer is pending
debounceTick ==
  /\ \A x \in debTimers : x.due > now
  /\ now + DebStep <= MaxUtilTicks * DebStep \/ debTimers # {}
  /\ now' = now + DebStep
  /\ UNCHANGED <<loaderVars, uiVars>>

DebounceInit ==
  /\ Init
  /\ page = BlankPage

DebounceNext ==
  \/ debounced
  \/ later
  \/ debounceTick

\* the event loop runs a timer that is due and lets time pass
DebounceSpec ==
  /\ DebounceInit
  /\ [][DebounceNext]_vars
  /\ WF_vars(later)
  /\ WF_vars(debounceTick)

DebDelivered == {debRuns[i].call : i \in DOMAIN debRuns}

DebCallArrives == Len(debCalls') = Len(debCalls) + 1

\* call k is the last call of its burst: no call follows within wait ms
DebEndsBurst(k, gap) ==
  \/ k = Len(debCalls)
  \/ k < Len(debCalls) /\ debCalls[k + 1] - debCalls[k] >= gap

\* C23: debounce with immediate unset.  func runs only from the timer, when
\* wait ms have passed since the most recent call, and with that call's
\* arguments; every call replaces the pending timer, so at most one timer is
\* pending; once the calls of a burst have stopped func is eventually
\* invoked, and it is invoked exactly once per burst, for its last call.
C23_DebounceTrailing ==
  /\ [](Cardinality(debTimers) <= 1)
  /\ []((timeout # 0) <=> (debTimers # {}))
  /\ [][DebCallArrives =>
          /\ debTimers' = {[id |-> Len(debCalls'), due |-> now + DebounceWait]}
          /\ debRuns' = debRuns]_vars
  /\ [][debRuns' # debRuns =>
          /\ ~DebCallArrives
          /\ debRuns' = Append(debRuns, [call |-> Len(debCalls), time |-> now])
          /\ now >= debCalls[Len(debCalls)] + DebounceWait]_vars
  /\ [](Len(debRuns) = Cardinality(DebDelivered))
  /\ [](\A k \in DebDelivered : DebEndsBurst(k, DebounceWait))
  /\ [](debTimers = {} =>
          \A k \in DOMAIN debCalls : DebEndsBurst(k, DebounceWait + 1) => k \in DebDelivered)
  /\ \A k \in 1..MaxCalls :
       (Len(debCalls) >= k) ~> (\E j \in DebDelivered : j >= k)

\* a burst of three calls, less than wait apart, answered by one invocation
\* with the arguments of the third
C23_Witness ==
  /\ Len(debCalls) = 3
  /\ debCalls[2] - debCalls[1] < DebounceWait
  /\ debCalls[3] - debCalls[2] < DebounceWait
  /\ debCalls[2] > debCalls[1]
  /\ debRuns = <<[call |-> 3, time |-> debCalls[3] + DebounceWait]>>
  /\ debTimers = {}

\* ==========================================================================
\* The mobile menu of UIController (lines 345-378, 380-396, 418-443) on a
\* page that has #mobileMenuToggle, #mobileNav with links, #quickActions
\* and #quickActionToggle.  Each handler runs to completion.
\* ==========================================================================
Widths == {MobileWidth, DesktopWidth, DesktopWidth + 1}
Sections == {"home", "models"}

otherThanMenu == <<now, loaderVars, thrVars, debVars, formVars, animVars, scrollVars>>

\* openMobileMenu (lines 361-370); focus() changes none of these fields
openMobileMenu_NoScrollLock ==
  /\ mobileMenuOpen' = TRUE
  /\ toggleActive' = TRUE
  /\ ariaExpanded' = "true"
  /\ navActive' = TRUE
  /\ bodyOverflow' = bodyOverflow

openMobileMenu ==
  /\ mobileMenuOpen' = TRUE
  /\ toggleActive' = TRUE
  /\ ariaExpanded' = "true"
  /\ navActive' = TRUE
  /\ bodyOverflow' = "hidden"

\* closeMobileMenu (lines 372-378)
closeMobileMenu ==
  /\ mobileMenuOpen' = FALSE
  /\ toggleActive' = FALSE
  /\ ariaExpanded' = "false"
  /\ navActive' = FALSE
  /\ bodyOverflow' = ""

menuDom == <<mobileMenuOpen, toggleActive, ariaExpanded, navActive, bodyOverflow>>

\* click on #mobileMenuToggle (lines 357-359)
handleMobileMenuToggle ==
  /\ IF mobileMenuOpen THEN closeMobileMenu ELSE openMobileMenu
  /\ UNCHANGED <<innerWidth, resizePending, quickActionsOpen, currentSection, userIsTabbing, otherThanMenu>>

\* click on a navigation link (lines 380-391); when the click target has no
\* href, substring throws before anything is changed
handleNavClick ==
  \E hasHref \in BOOLEAN, section \in Sections :
    /\ IF hasHref
       THEN closeMobileMenu /\ currentSection' = section
       ELSE UNCHANGED <<menuDom, currentSection>>
    /\ UNCHANGED <<innerWidth, resizePending, quickActionsOpen, userIsTabbing, otherThanMenu>>

\* click on #quickActionToggle (lines 393-396)
handleQuickActionToggle ==
  /\ quickActionsOpen' = ~quickActionsOpen
  /\ UNCHANGED <<menuDom, innerWidth, resizePending, currentSection, userIsTabbing, otherThanMenu>>

\* keydown of Escape or Tab (lines 428-443)
handleKeyboard ==
  \E key \in {"Escape", "Tab"} :
    /\ IF key = "Escape" /\ mobileMenuOpen THEN closeMobileMenu ELSE UNCHANGED menuDom
    /\ quickActionsOpen' = IF key = "Escape" THEN FALSE ELSE quickActionsOpen
    /\ userIsTabbing' = (userIsTabbing \/ key = "Tab")
    /\ UNCHANGED <<innerWidth, resizePending, currentSection, otherThanMenu>>

\* a horizontal swipe to the right (lines 345-349)
handleSwipeRight ==
  /\ IF mobileMenuOpen THEN closeMobileMenu ELSE UNCHANGED menuDom
  /\ UNCHANGED <<innerWidth, resizePending, quickActionsOpen, currentSection, userIsTabbing, otherThanMenu>>

\* a horizontal swipe to the left (lines 351-355)
handleSwipeLeft ==
  /\ IF ~mobileMenuOpen /\ innerWidth <= MobileWidth
     THEN openMobileMenu
     ELSE UNCHANGED menuDom
  /\ UNCHANGED <<innerWidth, resizePending, quickActionsOpen, currentSection, userIsTabbing, otherThanMenu>>

\* the window is resized: the debounced handleResize will run later
windowResize ==
  \E w \in Widths :
    /\ w # innerWidth
    /\ innerWidth' = w
    /\ resizePending' = TRUE
    /\ UNCHANGED <<menuDom, quickActionsOpen, currentSection, userIsTabbing, otherThanMenu>>

\* handleResize (lines 418-426), when the debounce timer runs
handleResize ==
  /\ resizePending
  /\ resizePending' = FALSE
  /\ IF innerWidth > DesktopWidth /\ mobileMenuOpen
     THEN closeMobileMenu
     ELSE UNCHANGED menuDom
  /\ UNCHANGED <<innerWidth, quickActionsOpen, currentSection, userIsTabbing, otherThanMenu>>

\* the markup may or may not give the toggle an aria-expanded="false"
MenuInit ==
  /\ LoaderNew
  /\ page = BlankPage
  /\ ThrottleIdle /\ DebounceIdle /\ FormIdle /\ AnimIdle /\ ScrollIdle
  /\ mobileMenuOpen = FALSE
  /\ toggleActive = FALSE
  /\ ariaExpanded \in {"absent", "false"}
  /\ navActive = FALSE
  /\ bodyOverflow = ""
  /\ innerWidth \in Widths
  /\ resizePending = FALSE
  /\ quickActionsOpen = FALSE
  /\ currentSection = "home"
  /\ userIsTabbing = FALSE

MenuNext ==
  \/ handleMobileMenuToggle
  \/ handleNavClick
  \/ handleQuickActionToggle
  \/ handleKeyboard
  \/ handleSwipeRight
  \/ handleSwipeLeft
  \/ windowResize
  \/ handleResize

MenuSpec == MenuInit /\ [][MenuNext]_vars

\* C24: state.mobileMenuOpen is true exactly when the toggle has class
\* 'active', its aria-expanded is "true", the mobile nav has class 'active'
\* and the body's overflow is 'hidden'
C24_MenuStateMatchesDom ==
  mobileMenuOpen <=>
    (toggleActive /\ ariaExpanded = "true" /\ navActive /\ bodyOverflow = "hidden")

\* the menu is open in a window wider than 1024 px: it was opened, the
\* window was resized, and the debounced handleResize has not run yet
C24_Witness ==
  /\ mobileMenuOpen
  /\ bodyOverflow = "hidden"
  /\ innerWidth > DesktopWidth
  /\ resizePending

\* ==========================================================================
\* The form of the booking modal (createBookingModal, lines 1049-1363).
\* A control's value is "empty", "ok" (a value that satisfies the control's
\* constraints) or, for the email input, "bad" (a type mismatch).  A user's
\* edit changes the value and dispatches the input / change event in the
\* same task.
\* ==========================================================================
RequiredFields == FieldNames \ {"message"}

FieldValues(f) == IF f = "email" THEN {"empty", "ok", "bad"} ELSE {"empty", "ok"}

otherThanForm == <<now, loaderVars, thrVars, debVars, menuVars, animVars, scrollVars>>

\* form.checkValidity(): every required control has a value, the email is
\* well-formed and the required checkbox is checked
checkValidity(f, c) ==
  /\ \A x \in RequiredFields : f[x] # "empty"
  /\ f["email"] # "bad"
  /\ c

\* validateForm (lines 1345-1348): the value it gives submitButton.disabled
validateForm_ConsentOnly(f, c) == ~c

validateForm(f, c) == ~(checkValidity(f, c) /\ c)

\* createBookingModal(modelId): the markup of lines 1051-1138
createBookingModal ==
  /\ modal = "none"
  /\ \E modelId \in {"", "myvi"} :
       fields' = [f \in FieldNames |->
                    IF f = "model" /\ modelId # "" THEN "ok" ELSE "empty"]
  /\ modal' = "open"
  /\ consentChecked' = FALSE
  /\ submitDisabled' = TRUE
  /\ validatePending' = TRUE
  /\ UNCHANGED otherThanForm

\* an input or change event on a text control or a select
fieldInput ==
  /\ modal = "open"
  /\ \E f \in FieldNames : \E v \in FieldValues(f) :
       /\ v # fields[f]
       /\ fields' = [fields EXCEPT ![f] = v]
       /\ submitDisabled' = validateForm(fields', consentChecked)
  /\ UNCHANGED <<modal, consentChecked, validatePending, otherThanForm>>

\* the consent checkbox is clicked: input and change events
consentChange ==
  /\ modal = "open"
  /\ consentChecked' = ~consentChecked
  /\ submitDisabled' = validateForm(fields, consentChecked')
  /\ UNCHANGED <<modal, fields, validatePending, otherThanForm>>

\* setTimeout(validateForm, 100) (line 1360)
initialValidation ==
  /\ validatePending
  /\ validatePending' = FALSE
  /\ submitDisabled' = validateForm(fields, consentChecked)
  /\ UNCHANGED <<modal, fields, consentChecked, otherThanForm>>

FormInit ==
  /\ Init
  /\ page = BlankPage

FormNext ==
  \/ createBookingModal
  \/ fieldInput
  \/ consentChange
  \/ initialValidation

FormSpec == FormInit /\ [][FormNext]_vars

\* C25: from the creation of the modal on, the submit button is disabled
\* exactly when the form is not (valid and consent checked); so it is never
\* enabled while a required control is empty or consent is unchecked
C25_SubmitGated ==
  modal = "open" =>
    /\ submitDisabled <=> ~(checkValidity(fields, consentChecked) /\ consentChecked)
    /\ ~submitDisabled =>
         /\ \A f \in RequiredFields : fields[f] # "empty"
         /\ consentChecked

\* the button has been enabled: every required control filled in, consent
\* given, the optional message left empty
C25_Witness ==
  /\ modal = "open"
  /\ ~submitDisabled
  /\ fields["message"] = "empty"
  /\ ~validatePending

\* ==========================================================================
\* AnimationEngine.triggerAnimation (lines 202-212) behind the intersection
\* observer of lines 113-131.  The observer delivers at most one entry per
\* element and rendering opportunity; with five thresholds an element that
\* scrolls into view is reported several times.
\* ==========================================================================
AosDelays == {k * FrameMs : k \in 0..MaxAosDelay}
AnimHorizon == (MaxNotify + MaxAosDelay) * FrameMs

otherThanAnim == <<loaderVars, thrVars, debVars, menuVars, formVars, scrollVars>>

\* the observer's callback with an entry of element e that isIntersecting:
\* triggerAnimation returns at once if e has class 'animated', and sets a
\* timeout of e's delay otherwise
triggerAnimation ==
  \E e \in Elements :
    /\ Len(notified[e]) < MaxNotify
    /\ IF notified[e] = <<>> THEN TRUE ELSE notified[e][Len(notified[e])] < now
    /\ notified' = [notified EXCEPT ![e] = Append(@, now)]
    /\ IF animated[e]
       THEN UNCHANGED <<animTimers, scheduled>>
       ELSE /\ animTimers' = Append(animTimers, [el |-> e, due |-> now + aosDelay[e]])
            /\ scheduled' = [scheduled EXCEPT ![e] = @ + 1]
    /\ UNCHANGED <<aosDelay, animated, played, now, otherThanAnim>>

\* the timeout of lines 208-211: add class 'animated', then playAnimation
animationTimeout ==
  \E i \in DOMAIN animTimers :
    /\ animTimers[i].due <= now
    /\ \A j \in 1..(i - 1) : animTimers[j].due > animTimers[i].due
    /\ animated' = [animated EXCEPT ![animTimers[i].el] = TRUE]
    /\ played' = [played EXCEPT ![animTimers[i].el] = @ + 1]
    /\ animTimers' = RemoveAt(animTimers, i)
    /\ UNCHANGED <<aosDelay, notified, scheduled, now, otherThanAnim>>

\* the next rendering opportunity
animationFrame ==
  /\ \A i \in DOMAIN animTimers : animTimers[i].due > now
  /\ now + FrameMs <= AnimHorizon
  /\ now' = now + FrameMs
  /\ UNCHANGED <<loaderVars, uiVars>>

\* the elements' data-aos-delay attributes are an input
AnimInit ==
  /\ LoaderNew
  /\ page = BlankPage
  /\ ThrottleIdle /\ DebounceIdle /\ MenuIdle /\ FormIdle /\ ScrollIdle
  /\ aosDelay \in [Elements -> AosDelays]
  /\ animated = [e \in Elements |-> FALSE]
  /\ animTimers = <<>>
  /\ notified = [e \in Elements |-> <<>>]
  /\ scheduled = [e \in Elements |-> 0]
  /\ played = [e \in Elements |-> 0]

AnimNext ==
  \/ triggerAnimation
  \/ animationTimeout
  \/ animationFrame

AnimSpec == AnimInit /\ [][AnimNext]_vars

\* C26: however many intersection notifications arrive for an element and
\* whatever its data-aos-delay, triggerAnimation schedules and plays the
\* element's entrance animation at most once
C26_AnimatesOnce ==
  \A e \in Elements :
    /\ scheduled[e] <= 1
    /\ played[e] <= 1

\* ==========================================================================
\* The scroll loop of AnimationEngine.setupScrollAnimations (lines 133-157).
\* updateParallax, updateHeader and updateProgressIndicators test for the
\* elements they write and do not throw.
\* ==========================================================================
ScrollPositions == {0, HeaderThreshold, HeaderThreshold + 1}

otherThanScroll == <<now, loaderVars, thrVars, debVars, menuVars, formVars, animVars>>

\* the 'scroll' listener of lines 147-156
onScroll_NoTicking ==
  /\ scrollEvents < MaxScrolls
  /\ scrollEvents' = scrollEvents + 1
  /\ \E y \in ScrollPositions : y # pageYOffset /\ pageYOffset' = y
  /\ IF ~ticking
     THEN rafQueue' = rafQueue + 1 /\ ticking' = ticking
     ELSE UNCHANGED <<rafQueue, ticking>>
  /\ UNCHANGED <<headerScrolled, scrollRuns, otherThanScroll>>

onScroll ==
  /\ scrollEvents < MaxScrolls
  /\ scrollEvents' = scrollEvents + 1
  /\ \E y \in ScrollPositions : y # pageYOffset /\ pageYOffset' = y
  /\ IF ~ticking
     THEN rafQueue' = rafQueue + 1 /\ ticking' = TRUE
     ELSE UNCHANGED <<rafQueue, ticking>>
  /\ UNCHANGED <<headerScrolled, scrollRuns, otherThanScroll>>

\* the animation-frame callback of lines 136-145
updateScrollAnimations ==
  /\ rafQueue > 0
  /\ rafQueue' = rafQueue - 1
  /\ headerScrolled' = (pageYOffset > HeaderThreshold)
  /\ scrollRuns' = Append(scrollRuns, [events |-> scrollEvents, scrollY |-> pageYOffset])
  /\ ticking' = FALSE
  /\ UNCHANGED <<pageYOffset, scrollEvents, otherThanScroll>>

ScrollInit ==
  /\ Init
  /\ page = BlankPage

ScrollNext ==
  \/ onScroll
  \/ updateScrollAnimations

\* the browser runs a pending animation-frame callback
ScrollSpec ==
  /\ ScrollInit
  /\ [][ScrollNext]_vars
  /\ WF_vars(updateScrollAnimations)

\* C27: at most one animation-frame callback is pending; a scroll event
\* schedules one only when ticking is false; only the callback resets
\* ticking; every scroll event is eventually followed by a run of
\* updateScrollAnimations
C27_OneFramePending ==
  /\ [](rafQueue <= 1)
  /\ [](ticking <=> rafQueue = 1)
  /\ [][rafQueue' > rafQueue => ~ticking /\ scrollEvents' = scrollEvents + 1]_vars
  /\ [][ticking /\ ~ticking' => Len(scrollRuns') = Len(scrollRuns) + 1]_vars
  /\ \A k \in 1..MaxScrolls :
       (scrollEvents >= k) ~> (\E i \in DOMAIN scrollRuns : scrollRuns[i].events >= k)

\* three scroll events arrived before the frame; one run served them all
C27_Witness ==
  /\ scrollEvents = 3
  /\ scrollRuns = <<[events |-> 3, scrollY |-> HeaderThreshold + 1]>>
  /\ headerScrolled
  /\ ~ticking
  /\ rafQueue = 0
====
